---- MODULE Spec2Model ----
(***************************************************************************)
(* go-asyncjob: a job definition is built once as a graph of steps, sealed *)
(* on first Start, and run as job instances whose step tasks are gated by  *)
(* their data parents and ExecuteAfter dependencies.                       *)
(***************************************************************************)
EXTENDS Integers, Sequences, FiniteSets, TLC

VARIABLES
    jd,         \* the job definition: sealed, steps, order, stepsDag
    tried,      \* linearRetryPolicy.tried of the policy attached to each step
    ji,         \* the job instances: phase, cursor, step instances and their tasks
    startLimit, \* how many job instances the caller starts
    lastCall    \* the builder call just made and what it returned

vars == <<jd, tried, ji, startLimit, lastCall>>

\* ------------------------------------------------------------------ bounds
\* maxRetryCount handed to newLinearRetryPolicy by the builder's caller
MaxRetryCount == 2
\* how many times the caller calls Wait on a job instance
MaxWaits == 2

\* name of the job definition; its root step carries the same name
Root == "job"
\* step names a caller registers, in the order a caller first uses them
NameOrder == <<"a", "b">>
StepNames == {NameOrder[k] : k \in 1..Len(NameOrder)}
\* a step definition that is not registered in this job may carry these names
ForeignNames == {"a"}
\* the step names of the job definitions that are run with three and four steps
RunNames == {"a", "b", "c", "d"}

NoPolicy == -1
Nil == "nil"

\* ------------------------------------------------------------- graph.Graph
SeqToSet(s) == {s[k] : k \in 1..Len(s)}

NewGraph == [nodes |-> <<>>, nodeEdges |-> <<>>]

\* AddNode: refuse an ID already present, else store the node under its ID
AddNode(g, n) ==
    IF n \in DOMAIN g.nodes
    THEN [g |-> g, err |-> "ErrDuplicateNode"]
    ELSE [g |-> [g EXCEPT !.nodes = g.nodes @@ (n :> n)], err |-> Nil]

\* mutant: the edge is stored whether or not its endpoints are nodes
ConnectUnchecked(g, from, to) ==
    LET old == IF from \in DOMAIN g.nodeEdges THEN g.nodeEdges[from] ELSE <<>>
        new == Append(old, [From |-> from, To |-> to])
    IN [g |-> [g EXCEPT !.nodeEdges =
                    [k \in (DOMAIN g.nodeEdges) \cup {from} |->
                        IF k = from THEN new ELSE g.nodeEdges[k]]],
        err |-> Nil]

\* Connect: both endpoints must be nodes; the edge is appended to from's list
Connect(g, from, to) ==
    IF from \notin DOMAIN g.nodes THEN [g |-> g, err |-> "ErrConnectNotExistingNode"]
    ELSE IF to \notin DOMAIN g.nodes THEN [g |-> g, err |-> "ErrConnectNotExistingNode"]
    ELSE LET old == IF from \in DOMAIN g.nodeEdges THEN g.nodeEdges[from] ELSE <<>>
             new == Append(old, [From |-> g.nodes[from], To |-> g.nodes[to]])
         IN [g |-> [g EXCEPT !.nodeEdges =
                        [k \in (DOMAIN g.nodeEdges) \cup {from} |->
                            IF k = from THEN new ELSE g.nodeEdges[k]]],
             err |-> Nil]

\* all edges of the graph, as a set of <<from, to>> pairs
Edges(g) ==
    UNION {{<<g.nodeEdges[k][e].From, g.nodeEdges[k][e].To>> :
                e \in 1..Len(g.nodeEdges[k])} : k \in DOMAIN g.nodeEdges}

\* the orders in which a range over a map with the keys S can yield them
Orders(S) ==
    {s \in [1..Cardinality(S) -> S] :
        \A a, b \in 1..Cardinality(S) : a # b => s[a] # s[b]}

\* the edge specifications of the edge lists of keys, list after list
RECURSIVE edgeSpecs(_, _)
edgeSpecs(g, keys) ==
    IF keys = <<>> THEN <<>>
    ELSE [e \in 1..Len(g.nodeEdges[Head(keys)]) |->
             [FromNodeID |-> g.nodeEdges[Head(keys)][e].From,
              ToNodeID |-> g.nodeEdges[Head(keys)][e].To]]
         \o edgeSpecs(g, Tail(keys))

\* ToDotGraph: the node specifications in the order the range over g.nodes
\* yields them, then the edges in the order the range over g.nodeEdges does
ToDotGraph(g, nodeOrder, keyOrder) ==
    [Nodes |-> [k \in 1..Len(nodeOrder) |-> g.nodes[nodeOrder[k]]],
     Edges |-> edgeSpecs(g, keyOrder)]

\* ----------------------------------------------------------- job definition
\* a step definition handle held by a caller: the registered definition of this
\* job ("this"), or any other definition object carrying that name ("other")
Handle(n, o) == [name |-> n, owner |-> o]

\* newStepDefinition: the options are applied in order; ExecuteAfter adds the
\* name of the step it is given to DependOn, WithRetry sets the policy
RECURSIVE applyExecuteAfter(_, _)
applyExecuteAfter(dependOn, hs) ==
    IF hs = <<>> THEN dependOn
    ELSE applyExecuteAfter(
            IF Head(hs).name \in SeqToSet(dependOn) THEN dependOn
            ELSE Append(dependOn, Head(hs).name),
            Tail(hs))

newStepDefinition(stepName, stepType, executeAfter, retry) ==
    [name |-> stepName, stepType |-> stepType,
     DependOn |-> applyExecuteAfter(<<>>, executeAfter),
     RetryPolicy |-> retry, builder |-> stepType, parents |-> <<>>]

NewJobDefinition ==
    [sealed |-> FALSE,
     steps |-> (Root :> newStepDefinition(Root, "root", <<>>, NoPolicy)),
     order |-> <<Root>>,
     stepsDag |-> AddNode(NewGraph, Root).g]

Sealed(j) == j.sealed

\* mutant: Seal flips the flag
SealToggle(j) == [j EXCEPT !.sealed = ~j.sealed]

Seal(j) == [j EXCEPT !.sealed = TRUE]

\* GetStep: (definition, ok)
GetStepOk(j, stepName) == stepName \in DOMAIN j.steps

\* the pointer comparison `get != parentStep` of the builders
IsRegistered(j, h) == GetStepOk(j, h.name) /\ h.owner = "this"

RECURSIVE connectAll(_, _, _)
connectAll(g, precedingSteps, to) ==
    IF precedingSteps = <<>> THEN g
    ELSE connectAll(Connect(g, Head(precedingSteps), to).g, Tail(precedingSteps), to)

\* mutant: the step is registered and connected whatever its name
jdAddStepUnchecked(j, stepD, precedingSteps) ==
    [jd |-> [j EXCEPT !.steps = [n \in DOMAIN j.steps \cup {stepD.name} |->
                                    IF n = stepD.name THEN stepD ELSE j.steps[n]],
                      !.order = IF stepD.name \in DOMAIN j.steps THEN @
                                ELSE Append(@, stepD.name),
                      !.stepsDag = connectAll(AddNode(j.stepsDag, stepD.name).g,
                                              precedingSteps, stepD.name)],
     err |-> Nil]

\* JobDefinition.AddStep: a sealed definition is not mutated and a used name is
\* refused without side effect; else the step is registered, added as a node
\* and connected from each preceding step
jdAddStep(j, stepD, precedingSteps) ==
    IF j.sealed THEN [jd |-> j, err |-> "JobSealed"]
    ELSE IF stepD.name \in DOMAIN j.steps THEN [jd |-> j, err |-> "DuplicateStep"]
    ELSE [jd |-> [j EXCEPT !.steps = j.steps @@ (stepD.name :> stepD),
                           !.order = Append(j.order, stepD.name),
                           !.stepsDag = connectAll(AddNode(j.stepsDag, stepD.name).g,
                                                   precedingSteps, stepD.name)],
          err |-> Nil]

\* mutant: the names of DependsOn are taken as they are
getDependsOnStepsUnchecked(stepD, j) == [steps |-> stepD.DependOn, err |-> Nil]

\* getDependsOnSteps: every name of DependsOn must be a step of the job
getDependsOnSteps(stepD, j) ==
    IF \A k \in 1..Len(stepD.DependOn) : GetStepOk(j, stepD.DependOn[k])
    THEN [steps |-> stepD.DependOn, err |-> Nil]
    ELSE [steps |-> <<>>, err |-> "StepNotFound"]

\* mutant: a step without preceding step is not linked to the root
AddStepUnrooted(j, stepName, executeAfter, retry) ==
    LET stepD == [newStepDefinition(stepName, "task", executeAfter, retry)
                    EXCEPT !.builder = "AddStep"]
        dep == getDependsOnSteps(stepD, j)
    IN IF dep.err # Nil THEN [jd |-> j, err |-> dep.err]
       ELSE [jd |-> jdAddStep(j, stepD, dep.steps).jd, err |-> Nil]

\* AddStep: a step without input; with no preceding step it hangs off the root.
\* The result of JobDefinition.AddStep is dropped and (stepD, nil) returned.
AddStep(j, stepName, executeAfter, retry) ==
    LET stepD == [newStepDefinition(stepName, "task", executeAfter, retry)
                    EXCEPT !.builder = "AddStep"]
        dep == getDependsOnSteps(stepD, j)
    IN IF dep.err # Nil THEN [jd |-> j, err |-> dep.err]
       ELSE LET rooted == Len(dep.steps) = 0
                preceding == IF rooted THEN <<Root>> ELSE dep.steps
                stepD2 == IF rooted
                          THEN [stepD EXCEPT !.DependOn = Append(stepD.DependOn, Root)]
                          ELSE stepD
            IN [jd |-> jdAddStep(j, stepD2, preceding).jd, err |-> Nil]

\* StepAfter: a step consuming the result of parentStep
StepAfter(j, stepName, parentStep, executeAfter, retry) ==
    IF ~IsRegistered(j, parentStep) THEN [jd |-> j, err |-> "StepNotFound"]
    ELSE
    LET stepD == [newStepDefinition(stepName, "task",
                                    Append(executeAfter, parentStep), retry)
                    EXCEPT !.builder = "StepAfter", !.parents = <<parentStep.name>>]
        dep == getDependsOnSteps(stepD, j)
    IN IF dep.err # Nil THEN [jd |-> j, err |-> dep.err]
       ELSE LET preceding == IF Len(dep.steps) = 0 THEN <<Root>> ELSE dep.steps
            IN [jd |-> jdAddStep(j, stepD, preceding).jd, err |-> Nil]

\* StepFromJobInput: StepAfter the root step
StepFromJobInput(j, stepName, executeAfter, retry) ==
    StepAfter(j, stepName, Handle(Root, "this"), executeAfter, retry)

\* StepAfterBoth: a step consuming the results of parentStepT and parentStepS
StepAfterBoth(j, stepName, parentStepT, parentStepS, executeAfter, retry) ==
    IF ~IsRegistered(j, parentStepT) THEN [jd |-> j, err |-> "StepNotFound"]
    ELSE IF ~IsRegistered(j, parentStepS) THEN [jd |-> j, err |-> "StepNotFound"]
    ELSE
    LET stepD == [newStepDefinition(stepName, "task",
                        executeAfter \o <<parentStepT, parentStepS>>, retry)
                    EXCEPT !.builder = "StepAfterBoth",
                           !.parents = <<parentStepT.name, parentStepS.name>>]
        dep == getDependsOnSteps(stepD, j)
    IN IF dep.err # Nil THEN [jd |-> j, err |-> dep.err]
       ELSE LET preceding == IF Len(dep.steps) = 0 THEN <<Root>> ELSE dep.steps
            IN [jd |-> jdAddStep(j, stepD, preceding).jd, err |-> Nil]

\* ------------------------------------------------------------- retry policy
\* mutant: one retry too many
ShouldRetryInclusive(triedSoFar, maxRetryCount) == triedSoFar <= maxRetryCount

\* linearRetryPolicy.ShouldRetry
ShouldRetry(triedSoFar, maxRetryCount) == triedSoFar < maxRetryCount

\* linearRetryPolicy.SleepInterval counts the sleep it hands out
SleepInterval(triedSoFar) == triedSoFar + 1

\* --------------------------------------------------------------- errors
NoErr == [Code |-> Nil, Step |-> "", Cause |-> ""]
newJobError(code) == [Code |-> code, Step |-> "", Cause |-> ""]
newStepError(stepName, cause) == [Code |-> "StepFailed", Step |-> stepName, Cause |-> cause]
\* the error a combinator gives a successor whose parent did not succeed
precedentFailure(parentErr) ==
    [Code |-> "PrecedentStepFailure", Step |-> "", Cause |-> parentErr.Code]
\* the error the task primitive makes of a panic of its body
panicRecovered == [Code |-> "PanicRecovered", Step |-> "", Cause |-> "panic"]

\* ------------------------------------------------------------ job instance
JobIds == {1, 2}
NoReport == -1

NoInstance ==
    [phase |-> "none", cursor |-> 0, steps |-> <<>>, canceled |-> FALSE,
     waited |-> FALSE, waits |-> 0, waitErr |-> NoErr]

newStepInstance(stepD) ==
    [state |-> "Pending", StartTime |-> FALSE, Duration |-> FALSE, Retried |-> NoReport,
     task |-> "Running", err |-> NoErr, pc |-> "created", precedingTasks |-> <<>>,
     lastError |-> Nil, calls |-> 0, failures |-> 0]

\* the root step instance: a completed task holding the job input
rootStepInstance ==
    [newStepInstance(Root) EXCEPT !.state = "Completed", !.task = "Completed", !.pc = "done"]

\* mutant: the lookup of the preceding instances comes back empty
getDependsOnStepInstancesEmpty(stepD, inst) == <<>>

\* mutant: the step waits for every instance created so far
getDependsOnStepInstancesAll(stepD, inst) ==
    SelectSeq(jd.order, LAMBDA m : m \in DOMAIN inst.steps)

\* getDependsOnStepInstances: the instances of DependsOn, or nothing at all
\* when one of them is not in the job instance (the error is dropped)
getDependsOnStepInstances(stepD, inst) ==
    IF \A k \in 1..Len(stepD.DependOn) : stepD.DependOn[k] \in DOMAIN inst.steps
    THEN stepD.DependOn
    ELSE <<>>

\* mutant: the error of a failed step does not name the step
instrumentedReturnUnnamed(si, stepName, cause) ==
    IF cause # Nil
    THEN [si EXCEPT !.Duration = TRUE, !.state = "Failed", !.task = "Failed",
                    !.err = [Code |-> "StepFailed", Step |-> "", Cause |-> cause],
                    !.pc = "done"]
    ELSE [si EXCEPT !.Duration = TRUE, !.state = "Completed", !.task = "Completed",
                    !.pc = "done"]

\* the tail of instrumentedFunc: Duration, then state and result from err
instrumentedReturn(si, stepName, cause) ==
    IF cause # Nil
    THEN [si EXCEPT !.Duration = TRUE, !.state = "Failed", !.task = "Failed",
                    !.err = newStepError(stepName, cause), !.pc = "done"]
    ELSE [si EXCEPT !.Duration = TRUE, !.state = "Completed", !.task = "Completed",
                    !.pc = "done"]

\* mutant: the error of WaitAll is dropped and the body goes on
waitAllFailedIgnored(si) ==
    [si EXCEPT !.StartTime = TRUE, !.state = "Running", !.pc = "call"]

\* mutant: the skipped step is stamped with a start time
waitAllFailedStamped(si) ==
    [si EXCEPT !.StartTime = TRUE, !.task = "Failed",
               !.err = newJobError("PrecedentStepFailure"), !.pc = "done"]

\* instrumentedFunc when WaitAll on precedingTasks fails: the step is left as
\* it is and the task ends with a precedent failure
waitAllFailed(si) ==
    [si EXCEPT !.task = "Failed", !.err = newJobError("PrecedentStepFailure"), !.pc = "done"]

\* mutant: the retry report is not made anew for the run of the body
bodyStartedNoReport(si, stepD) ==
    [si EXCEPT !.StartTime = TRUE, !.state = "Running", !.pc = "call"]

\* instrumentedFunc once WaitAll succeeded: StartTime, Running, retry report
bodyStarted(si, stepD) ==
    [si EXCEPT !.StartTime = TRUE, !.state = "Running",
               !.Retried = IF stepD.RetryPolicy # NoPolicy THEN 0 ELSE NoReport,
               !.pc = "call"]

Terminal(si) == si.task # "Running"

\* ------------------------------------------------------------------- Init
NoCall == [op |-> "none", err |-> Nil, sealed |-> FALSE, duplicate |-> FALSE,
           notFound |-> FALSE, selfDep |-> FALSE, changed |-> FALSE, dot |-> <<>>]

Init ==
    /\ jd = NewJobDefinition
    /\ tried = [n \in RunNames |-> 0]
    /\ ji = [i \in JobIds |-> NoInstance]
    /\ startLimit = 1
    /\ lastCall = NoCall

Live(i) == {n \in DOMAIN ji[i].steps : ji[i].steps[n].task = "Running"}

\* ---------------------------------------------------------- builder calls
\* a caller names a step it has used before, or the next unused name
FirstUnused(j) ==
    LET free == {k \in 1..Len(NameOrder) : NameOrder[k] \notin DOMAIN j.steps}
    IN IF free = {} THEN {}
       ELSE {NameOrder[CHOOSE k \in free : \A m \in free : k <= m]}
CallNames(j) == (StepNames \cap DOMAIN j.steps) \cup FirstUnused(j)

Handles(j) == {Handle(n, "this") : n \in DOMAIN j.steps}
                \cup {Handle(n, "other") : n \in ForeignNames}
ExecuteAfterOptions(j) == {<<>>} \cup {<<h>> : h \in Handles(j)}
\* WithRetry is among the options of AddStep and StepAfter calls
RetryOptions == {NoPolicy, MaxRetryCount}

\* The caller is one thread: it builds, starts and waits; its builder calls,
\* which neither read nor write a job instance, are taken before Start, and
\* one more after its last Wait has returned.
CallerFree ==
    \A i \in JobIds :
        ji[i].phase = "none" \/ (ji[i].waits = MaxWaits /\ lastCall.op = "none")

\* preds: the step definitions the caller hands over as data parents and
\* through ExecuteAfter
Called(op, stepName, preds, res) ==
    /\ CallerFree
    /\ jd' = res.jd
    /\ lastCall' = [op |-> op, err |-> res.err,
                    sealed |-> Sealed(jd), duplicate |-> GetStepOk(jd, stepName),
                    notFound |-> \E h \in preds : ~IsRegistered(jd, h),
                    selfDep |-> \E h \in preds : h.name = stepName,
                    changed |-> res.jd # jd, dot |-> <<>>]
    /\ UNCHANGED <<tried, ji, startLimit>>

CallAddStep ==
    \E n \in CallNames(jd), ea \in ExecuteAfterOptions(jd), r \in RetryOptions :
        Called("AddStep", n, SeqToSet(ea), AddStep(jd, n, ea, r))

CallStepFromJobInput ==
    \E n \in CallNames(jd), ea \in ExecuteAfterOptions(jd), r \in {NoPolicy} :
        Called("StepFromJobInput", n, SeqToSet(ea), StepFromJobInput(jd, n, ea, r))

CallStepAfter ==
    \E n \in CallNames(jd), p \in Handles(jd), ea \in ExecuteAfterOptions(jd),
       r \in RetryOptions :
        Called("StepAfter", n, SeqToSet(ea) \cup {p}, StepAfter(jd, n, p, ea, r))

CallStepAfterBoth ==
    \E n \in CallNames(jd), p \in Handles(jd), q \in Handles(jd),
       ea \in ExecuteAfterOptions(jd), r \in {NoPolicy} :
        Called("StepAfterBoth", n, SeqToSet(ea) \cup {p, q},
               StepAfterBoth(jd, n, p, q, ea, r))

CallSeal ==
    /\ CallerFree
    /\ jd' = Seal(jd)
    /\ lastCall' = NoCall
    /\ UNCHANGED <<tried, ji, startLimit>>

\* ------------------------------------------------------------------ Start
\* mutant: Start connects the root step anew
sealOnStartReconnect(j) == [Seal(j) EXCEPT !.stepsDag = Connect(j.stepsDag, Root, Root).g]

\* Start seals the definition on first use and leaves a sealed one alone
sealOnStart(j) == IF Sealed(j) THEN j ELSE Seal(j)

\* JobDefinition.Start: seal on first use, create the instance with its root
\* step; the step instances are then created one by one in insertion order
Start(i) ==
    /\ i <= startLimit
    /\ ji[i].phase = "none"
    /\ \A k \in JobIds : k < i => ji[k].phase # "none"
    /\ jd' = sealOnStart(jd)
    /\ ji' = [ji EXCEPT ![i] = [NoInstance EXCEPT
                !.phase = IF Len(jd.order) > 1 THEN "starting" ELSE "started",
                !.cursor = 2,
                !.steps = (Root :> rootStepInstance)]]
    /\ lastCall' = NoCall
    /\ UNCHANGED <<tried, startLimit>>

\* instanceCreator of the next step definition: resolve the preceding
\* instances, build the step instance and start its task
instanceCreator(i) ==
    /\ ji[i].phase = "starting"
    /\ LET n == jd.order[ji[i].cursor]
           stepD == jd.steps[n]
           parentsThere == \A k \in 1..Len(stepD.parents) :
                               stepD.parents[k] \in DOMAIN ji[i].steps
           si == [newStepInstance(stepD) EXCEPT
                    !.precedingTasks = getDependsOnStepInstances(stepD, ji[i]),
                    !.pc = IF stepD.builder = "AddStep" THEN "waitAll" ELSE "parents"]
       IN ji' = [ji EXCEPT ![i] =
                    IF ~parentsThere
                    THEN [@ EXCEPT !.phase = "panicked"]
                    ELSE [@ EXCEPT !.steps = @ @@ (n :> si),
                                   !.cursor = @ + 1,
                                   !.phase = IF ji[i].cursor = Len(jd.order)
                                             THEN "started" ELSE "starting"]]
    /\ lastCall' = NoCall
    /\ UNCHANGED <<jd, tried, startLimit>>

\* ----------------------------------------------------------- step tasks
SetStep(i, n, si) ==
    /\ ji' = [ji EXCEPT ![i].steps[n] = si]
    /\ lastCall' = NoCall
    /\ UNCHANGED <<jd, startLimit>>

\* ContinueWith / AfterBoth: the continuation runs once every parent task has
\* completed; a parent that failed, or a wait for it cut short by the
\* cancellation of the context, fails the successor with a precedent failure
continueWith(inst, n, parents) ==
    LET si == inst.steps[n]
        bad == {k \in 1..Len(parents) : inst.steps[parents[k]].task = "Failed"}
        failed(e) == [si EXCEPT !.task = "Failed", !.pc = "done",
                                !.err = precedentFailure(e)]
    IN {failed(inst.steps[parents[k]].err) : k \in bad}
       \cup (IF inst.canceled THEN {failed(newJobError("JobCanceled"))} ELSE {})
       \cup (IF \A k \in 1..Len(parents) : inst.steps[parents[k]].task = "Completed"
             THEN {[si EXCEPT !.pc = "waitAll"]} ELSE {})

ParentsDone(i, n) ==
    /\ ji[i].steps[n].pc = "parents"
    /\ \E si \in continueWith(ji[i], n, jd.steps[n].parents) : SetStep(i, n, si)
    /\ UNCHANGED tried

\* instrumentedFunc up to the user function: WaitAll on precedingTasks
WaitAllDone(i, n) ==
    /\ ji[i].steps[n].pc = "waitAll"
    /\ LET si == ji[i].steps[n]
           pt == si.precedingTasks
       IN \/ /\ \/ \E k \in 1..Len(pt) : ji[i].steps[pt[k]].task = "Failed"
                \/ ji[i].canceled
             /\ SetStep(i, n, waitAllFailed(si))
          \/ /\ \A k \in 1..Len(pt) : ji[i].steps[pt[k]].task = "Completed"
             /\ SetStep(i, n, bodyStarted(si, jd.steps[n]))
    /\ UNCHANGED tried

Outcomes == {"ok", "error", "panic"}
causeOf(outcome) ==
    IF outcome = "ok" THEN Nil ELSE IF outcome = "error" THEN "UserError" ELSE "PanicRecovered"

\* a panic of the user function unwinds instrumentedFunc: the task primitive
\* recovers it, the step instance is not touched again
panicUnwound(si) ==
    [si EXCEPT !.task = "Failed", !.err = panicRecovered, !.pc = "done"]

\* mutant: the retryer does not look at the context
RunDeaf(si, stepName, cause, canceled, triedSoFar, maxRetryCount) ==
    IF cause = Nil THEN [si |-> instrumentedReturn(si, stepName, Nil), tried |-> triedSoFar]
    ELSE IF ShouldRetry(triedSoFar, maxRetryCount)
    THEN [si |-> [si EXCEPT !.pc = "sleep", !.lastError = cause],
          tried |-> SleepInterval(triedSoFar)]
    ELSE [si |-> instrumentedReturn(si, stepName, cause), tried |-> triedSoFar]

\* retryer.Run after one attempt: return on success, on a canceled context
\* and on a refusal of the policy; else take the sleep interval and sleep
Run(si, stepName, cause, canceled, triedSoFar, maxRetryCount) ==
    IF cause = Nil THEN [si |-> instrumentedReturn(si, stepName, Nil), tried |-> triedSoFar]
    ELSE IF canceled
    THEN [si |-> instrumentedReturn(si, stepName, cause), tried |-> triedSoFar]
    ELSE IF ShouldRetry(triedSoFar, maxRetryCount)
    THEN [si |-> [si EXCEPT !.pc = "sleep", !.lastError = cause],
          tried |-> SleepInterval(triedSoFar)]
    ELSE [si |-> instrumentedReturn(si, stepName, cause), tried |-> triedSoFar]

\* one invocation of the user function by instrumentedFunc, directly or as
\* an attempt of the retryer
Invoke(i, n, outcome) ==
    /\ ji[i].steps[n].pc = "call"
    /\ LET si == [ji[i].steps[n] EXCEPT
                    !.calls = @ + 1,
                    !.failures = IF outcome = "ok" THEN @ ELSE @ + 1]
           stepD == jd.steps[n]
       IN IF stepD.RetryPolicy = NoPolicy
          THEN /\ SetStep(i, n, IF outcome = "panic" THEN panicUnwound(si)
                                ELSE instrumentedReturn(si, n, causeOf(outcome)))
               /\ UNCHANGED tried
          ELSE LET r == Run(si, n, causeOf(outcome), ji[i].canceled, tried[n], stepD.RetryPolicy)
               IN /\ SetStep(i, n, r.si)
                  /\ tried' = [tried EXCEPT ![n] = r.tried]

\* retryer.Run after the sleep: count the retry and run the next attempt; a
\* sleep cut short by the cancellation of the context returns the last error
RetrySleepDone(i, n) ==
    /\ ji[i].steps[n].pc = "sleep"
    /\ SetStep(i, n, IF ji[i].canceled
                     THEN instrumentedReturn(ji[i].steps[n], n, ji[i].steps[n].lastError)
                     ELSE [ji[i].steps[n] EXCEPT !.Retried = @ + 1, !.pc = "call"])
    /\ UNCHANGED tried

\* the context handed to Start is canceled
Cancel(i) ==
    /\ ji[i].phase \in {"starting", "started"}
    /\ ~ji[i].canceled
    /\ Live(i) # {}
    /\ ji' = [ji EXCEPT ![i].canceled = TRUE]
    /\ lastCall' = NoCall
    /\ UNCHANGED <<jd, tried, startLimit>>

\* ------------------------------------------------------------------- Wait
\* the error of the first step, in insertion order, whose task failed
RECURSIVE firstError(_, _)
firstError(inst, names) ==
    IF names = <<>> THEN NoErr
    ELSE IF inst.steps[Head(names)].task = "Failed"
         THEN inst.steps[Head(names)].err
         ELSE firstError(inst, Tail(names))

\* mutant: the failure is handed out to the first Wait only
waitResultOnce(inst, names) ==
    IF inst.waited THEN NoErr ELSE firstError(inst, names)

\* what Wait returns once every step task has terminated
waitResult(inst, names) == firstError(inst, names)

\* JobInstance.Wait: await every step task, return the first failure or nil
Wait(i) ==
    /\ ji[i].phase = "started"
    /\ Live(i) = {}
    /\ ji[i].waits < MaxWaits
    /\ ji' = [ji EXCEPT ![i].waited = TRUE, ![i].waits = @ + 1,
                        ![i].waitErr = waitResult(ji[i], jd.order)]
    /\ lastCall' = NoCall
    /\ UNCHANGED <<jd, tried, startLimit>>

\* ------------------------------------------------------------------- Next
Next ==
    \/ CallAddStep
    \/ CallStepFromJobInput
    \/ CallStepAfter
    \/ CallStepAfterBoth
    \/ CallSeal
    \/ \E i \in JobIds : Start(i)
    \/ \E i \in JobIds : instanceCreator(i)
    \/ \E i \in JobIds : \E n \in Live(i) : ParentsDone(i, n)
    \/ \E i \in JobIds : \E n \in Live(i) : WaitAllDone(i, n)
    \/ \E i \in JobIds : \E n \in Live(i) : \E o \in Outcomes : Invoke(i, n, o)
    \/ \E i \in JobIds : \E n \in Live(i) : RetrySleepDone(i, n)
    \/ \E i \in JobIds : Wait(i)

\* the caller builds, seals, starts and waits, and the step tasks run to their
\* end; the cancellation of the context is part of SpecRun
Spec == Init /\ [][Next]_vars

\* ------------------------------------------------- job definitions to run
This(n) == Handle(n, "this")

\* a cut of the SQL summary job of the tests: a takes the job input, b is a
\* step without input, c takes a and the input, runs after b and retries,
\* d runs after c
SummaryJob ==
    LET j1 == StepFromJobInput(NewJobDefinition, "a", <<>>, NoPolicy).jd
        j2 == AddStep(j1, "b", <<>>, NoPolicy).jd
        j3 == StepAfterBoth(j2, "c", This("a"), This(Root), <<This("b")>>, MaxRetryCount).jd
    IN AddStep(j3, "d", <<This("c")>>, NoPolicy).jd

\* a chain a -> b beside an independent step c; a retries
ChainJob ==
    LET j1 == AddStep(NewJobDefinition, "a", <<>>, MaxRetryCount).jd
        j2 == StepAfter(j1, "b", This("a"), <<>>, NoPolicy).jd
    IN StepFromJobInput(j2, "c", <<>>, NoPolicy).jd

\* a join: c takes the results of a and b, b retries
JoinJob ==
    LET j1 == StepFromJobInput(NewJobDefinition, "a", <<>>, NoPolicy).jd
        j2 == AddStep(j1, "b", <<>>, MaxRetryCount).jd
    IN StepAfterBoth(j2, "c", This("a"), This("b"), <<>>, NoPolicy).jd

\* b takes the result of a and runs after c, an ordering-only dependency
\* that is registered before it; d is a step with a retry policy after b
OrderJob ==
    LET j1 == AddStep(NewJobDefinition, "a", <<>>, NoPolicy).jd
        j2 == AddStep(j1, "c", <<>>, NoPolicy).jd
        j3 == StepAfter(j2, "b", This("a"), <<This("c")>>, NoPolicy).jd
    IN StepAfter(j3, "d", This("b"), <<>>, MaxRetryCount).jd

\* every definition one successful builder call makes of j by registering n,
\* the caller holding handles of the steps of j
BuiltBy(j, n) ==
    LET hs == {This(m) : m \in DOMAIN j.steps}
        eas == {<<>>} \cup {<<h>> : h \in hs}
    IN {AddStep(j, n, ea, r).jd : ea \in eas, r \in RetryOptions}
       \cup {StepAfter(j, n, p, ea, r).jd : p \in hs, ea \in eas, r \in RetryOptions}
       \cup {StepAfterBoth(j, n, p, q, ea, r).jd :
                p \in hs, q \in hs, ea \in eas, r \in RetryOptions}

Retrying(j) == {n \in DOMAIN j.steps : j.steps[n].RetryPolicy # NoPolicy}

\* the definitions of two steps a, b, with or without retry policies
TwoStepJobs == UNION {BuiltBy(j1, "b") : j1 \in BuiltBy(NewJobDefinition, "a")}

\* the definitions of three steps a, b, c without retry policy
ThreeStepJobs ==
    UNION {BuiltBy(j2, "c") : j2 \in {j \in TwoStepJobs : Retrying(j) = {}}}

RunJobs ==
    TwoStepJobs \cup {j \in ThreeStepJobs : Retrying(j) = {}}
        \cup {SummaryJob, ChainJob, JoinJob, OrderJob}

InitRun ==
    /\ jd \in RunJobs
    /\ tried = [n \in RunNames |-> 0]
    /\ ji = [i \in JobIds |-> NoInstance]
    /\ startLimit = 1
    /\ lastCall = NoCall

NextRun ==
    \/ \E i \in JobIds : Start(i)
    \/ \E i \in JobIds : instanceCreator(i)
    \/ \E i \in JobIds : \E n \in Live(i) : ParentsDone(i, n)
    \/ \E i \in JobIds : \E n \in Live(i) : WaitAllDone(i, n)
    \/ \E i \in JobIds : \E n \in Live(i) : \E o \in Outcomes : Invoke(i, n, o)
    \/ \E i \in JobIds : \E n \in Live(i) : RetrySleepDone(i, n)
    \/ \E i \in JobIds : Cancel(i)
    \/ \E i \in JobIds : Wait(i)

SpecRun == InitRun /\ [][NextRun]_vars

\* two job instances started from one definition, as TestSimpleJob does; the
\* retry policy of a step definition is the one object both instances use
StartCount == 2

\* a step a with a retry policy and a step b that takes its result
PairJob ==
    LET j1 == AddStep(NewJobDefinition, "a", <<>>, MaxRetryCount).jd
    IN StepAfter(j1, "b", This("a"), <<>>, NoPolicy).jd

InitTwo ==
    /\ jd = PairJob
    /\ tried = [n \in RunNames |-> 0]
    /\ ji = [i \in JobIds |-> NoInstance]
    /\ startLimit = StartCount
    /\ lastCall = NoCall

SpecTwo == InitTwo /\ [][NextRun]_vars

\* the caller renders the graph of a built definition, and renders it again
MaxRenderings == 2

CallToDotGraph ==
    /\ Len(lastCall.dot) < MaxRenderings
    /\ \E nodeOrder \in Orders(DOMAIN jd.stepsDag.nodes),
          keyOrder \in Orders(DOMAIN jd.stepsDag.nodeEdges) :
            lastCall' = [lastCall EXCEPT
                            !.dot = Append(@, ToDotGraph(jd.stepsDag, nodeOrder, keyOrder))]
    /\ UNCHANGED <<jd, tried, ji, startLimit>>

\* the caller of the graph container adds nodes and connects them
NodeIds == {"a", "b", "c"}
MaxEdges == 3

EdgeCount(g) == Cardinality(UNION {{<<k, e>> : e \in 1..Len(g.nodeEdges[k])} :
                                        k \in DOMAIN g.nodeEdges})

GraphCalled(op, res, duplicate, notFound) ==
    /\ jd' = [jd EXCEPT !.stepsDag = res.g]
    /\ lastCall' = [NoCall EXCEPT !.op = op, !.err = res.err,
                                  !.duplicate = duplicate, !.notFound = notFound,
                                  !.changed = res.g # jd.stepsDag]
    /\ UNCHANGED <<tried, ji, startLimit>>

CallAddNode ==
    \E n \in NodeIds :
        GraphCalled("AddNode", AddNode(jd.stepsDag, n), n \in DOMAIN jd.stepsDag.nodes, FALSE)

CallConnect ==
    /\ EdgeCount(jd.stepsDag) < MaxEdges
    /\ \E from \in NodeIds, to \in NodeIds :
          GraphCalled("Connect", Connect(jd.stepsDag, from, to), FALSE,
                      {from, to} \ DOMAIN jd.stepsDag.nodes # {})

InitGraph ==
    /\ jd = [NewJobDefinition EXCEPT !.stepsDag = NewGraph]
    /\ tried = [n \in RunNames |-> 0]
    /\ ji = [i \in JobIds |-> NoInstance]
    /\ startLimit = 1
    /\ lastCall = NoCall

NextGraph == CallAddNode \/ CallConnect

SpecGraph == InitGraph /\ [][NextGraph]_vars

InitDot ==
    /\ jd \in TwoStepJobs
    /\ tried = [n \in RunNames |-> 0]
    /\ ji = [i \in JobIds |-> NoInstance]
    /\ startLimit = 1
    /\ lastCall = NoCall

NextDot == CallToDotGraph

SpecDot == InitDot /\ [][NextDot]_vars

\* ===================================================================== claims
Started == {i \in JobIds : ji[i].phase # "none"}
Steps(i) == DOMAIN ji[i].steps
\* all step tasks of a fully created job instance have terminated
Done(i) == ji[i].phase = "started" /\ Live(i) = {}

\* the predecessors of v in the definition graph, and their transitive closure
Preds(v) == {e[1] : e \in {d \in Edges(jd.stepsDag) : d[2] = v}}
RECURSIVE Ancestors(_)
Ancestors(v) == Preds(v) \cup UNION {Ancestors(u) : u \in Preds(v)}

\* the user function of n has been invoked, or is about to be
Invoked(i, n) == ji[i].steps[n].calls > 0 \/ ji[i].steps[n].pc \in {"call", "sleep"}
\* the user function of n made the step fail (an error returned, or a panic)
FailedItself(i, n) ==
    /\ ji[i].steps[n].task = "Failed"
    /\ ji[i].steps[n].err.Code \in {"StepFailed", "PanicRecovered"}

\* C1: the user function of a step is invoked only after every predecessor of
\* the step in the definition graph (data parent, ExecuteAfter dependency,
\* implicit root) has terminated successfully.
C1_InvokedAfterPredecessors ==
    \A i \in Started : \A e \in Edges(jd.stepsDag) :
        (e[2] \in Steps(i) /\ Invoked(i, e[2]))
            => (e[1] \in Steps(i) /\ ji[i].steps[e[1]].task = "Completed")

\* a step with a data parent and an ordering-only dependency, none the root,
\* has had its function invoked
C1_Witness ==
    \E i \in Started : \E v \in Steps(i) \ {Root} :
        /\ ji[i].steps[v].calls > 0
        /\ \E u \in SeqToSet(jd.steps[v].parents) \ {Root} :
             \E w \in Preds(v) \ (SeqToSet(jd.steps[v].parents) \cup {Root}) : u # w

\* C2: a step with a failed predecessor never has its user function invoked,
\* and once its task has terminated it carries a precedent failure, whether
\* the combinator or the WaitAll of the instrumented body detected it.
C2_PrecedentFailure ==
    \A i \in Started : \A v \in Steps(i) :
        (\E u \in Preds(v) \cap Steps(i) : ji[i].steps[u].task = "Failed")
            => /\ ~Invoked(i, v)
               /\ ji[i].steps[v].task # "Running"
                    => /\ ji[i].steps[v].task = "Failed"
                       /\ ji[i].steps[v].err.Code = "PrecedentStepFailure"

\* one step failed by the combinator on its data parent, another by WaitAll on
\* its ordering-only dependency, the context not being canceled
C2_Witness ==
    \E i \in Started : \E v, w \in Steps(i) :
        /\ ~ji[i].canceled
        /\ ji[i].steps[v].err = precedentFailure(newStepError("a", "UserError"))
        /\ ji[i].steps[w].err = newJobError("PrecedentStepFailure")
        /\ ji[i].steps[w].task = "Failed"
        /\ Done(i)

\* C3: a failure does not short-circuit the job. Unless the context is
\* canceled, only steps with a failed ancestor end with a precedent failure,
\* and once all tasks have terminated every step whose ancestors all
\* completed has had its user function invoked.
C3_NoShortCircuit ==
    \A i \in Started : ~ji[i].canceled =>
        \A v \in Steps(i) \ {Root} :
            /\ ji[i].steps[v].err.Code = "PrecedentStepFailure"
                 => \E u \in Ancestors(v) \cap Steps(i) : FailedItself(i, u)
            /\ (Done(i) /\ \A u \in Ancestors(v) : ~FailedItself(i, u))
                 => ji[i].steps[v].calls > 0

\* a step failed, its dependent ended with a precedent failure and a step that
\* does not depend on it completed
C3_Witness ==
    \E i \in Started : \E f, d, v \in Steps(i) \ {Root} :
        /\ Done(i) /\ ~ji[i].canceled
        /\ ji[i].steps[f].err.Code = "StepFailed"
        /\ f \in Ancestors(d) /\ ji[i].steps[d].err.Code = "PrecedentStepFailure"
        /\ f \notin Ancestors(v) /\ ji[i].steps[v].state = "Completed"

\* the steps whose user function ended in an error it returned
Errored(i) ==
    {n \in Steps(i) : ji[i].steps[n].err.Code = "StepFailed"
                        /\ ji[i].steps[n].err.Cause = "UserError"}
Panicked(i) ==
    {n \in Steps(i) : ji[i].steps[n].err.Code = "PanicRecovered"
                        \/ ji[i].steps[n].err.Cause = "PanicRecovered"}

\* C4: when exactly one step's user function returned an error (no panic, no
\* cancellation), Wait returns the StepFailed error of that very step.
C4_WaitReturnsFailedStep ==
    \A i \in Started :
        (ji[i].waited /\ ~ji[i].canceled /\ Panicked(i) = {}
            /\ Cardinality(Errored(i)) = 1)
          => \E n \in Errored(i) : ji[i].waitErr = newStepError(n, "UserError")

\* Wait has returned for a job in which one step returned an error and a
\* dependent of it ended with a precedent failure
C4_Witness ==
    \E i \in Started :
        /\ ji[i].waited /\ ~ji[i].canceled /\ Panicked(i) = {}
        /\ Cardinality(Errored(i)) = 1
        /\ \E n \in Steps(i) : ji[i].steps[n].err.Code = "PrecedentStepFailure"

\* C5: a panic of a step's user function is contained: the step ends Failed
\* with its duration recorded and a StepFailed error naming it.
C5_PanicContained ==
    \A i \in Started : \A n \in Panicked(i) :
        /\ ji[i].steps[n].state = "Failed"
        /\ ji[i].steps[n].Duration
        /\ ji[i].steps[n].err.Code = "StepFailed"
        /\ ji[i].steps[n].err.Step = n

\* C6: a step with a retry policy that completed after k failed attempts has
\* had its user function invoked k+1 times and reports k retries.
C6_RetryThenSuccess ==
    \A i \in Started : \A n \in Steps(i) \ {Root} :
        (jd.steps[n].RetryPolicy # NoPolicy /\ ji[i].steps[n].state = "Completed")
            => /\ ji[i].steps[n].calls = ji[i].steps[n].failures + 1
               /\ ji[i].steps[n].Retried = ji[i].steps[n].failures
               /\ ji[i].steps[n].task = "Completed"

\* a step completed at the last attempt its policy allows
C6_Witness ==
    \E i \in Started : \E n \in Steps(i) \ {Root} :
        /\ jd.steps[n].RetryPolicy # NoPolicy
        /\ ji[i].steps[n].state = "Completed"
        /\ ji[i].steps[n].failures = MaxRetryCount

\* C7: a step whose user function fails at every attempt under a policy of at
\* most n retries stops retrying: it is never invoked more than n+1 times and,
\* the context not being canceled, ends Failed with a StepFailed error naming
\* it and a retry report of n.
C7_RetryExhausted ==
    \A i \in Started : \A n \in Steps(i) \ {Root} :
        jd.steps[n].RetryPolicy # NoPolicy =>
            /\ ji[i].steps[n].calls <= jd.steps[n].RetryPolicy + 1
            /\ (~ji[i].canceled /\ ji[i].steps[n].pc = "done"
                    /\ ji[i].steps[n].calls > 0
                    /\ ji[i].steps[n].failures = ji[i].steps[n].calls)
                 => /\ ji[i].steps[n].state = "Failed"
                    /\ ji[i].steps[n].err.Code = "StepFailed"
                    /\ ji[i].steps[n].err.Step = n
                    /\ ji[i].steps[n].Retried = jd.steps[n].RetryPolicy

\* the retries of a policy are exhausted and Wait has returned the failure
C7_Witness ==
    \E i \in Started : \E n \in Steps(i) \ {Root} :
        /\ jd.steps[n].RetryPolicy = MaxRetryCount
        /\ ~ji[i].canceled /\ ji[i].waited
        /\ ji[i].steps[n].failures = MaxRetryCount + 1
        /\ ji[i].waitErr.Step = n

\* C8: sealed is a one-way latch: a new definition is not sealed, Seal and
\* Start set it, and no call ever resets it.
C8_SealedLatch ==
    /\ ~Sealed(jd)
    /\ [][/\ Sealed(jd) => Sealed(jd')
          /\ (\E i \in JobIds : ji[i].phase = "none" /\ ji'[i].phase # "none")
                => Sealed(jd')]_vars

\* a builder call was made on a definition sealed by Start, after Wait
C8_Witness ==
    /\ Sealed(jd) /\ lastCall.op # "none" /\ lastCall.sealed
    /\ \E i \in Started : ji[i].waited

\* C9: a builder call on a sealed definition returns JobSealed and leaves the
\* definition unchanged.
C9_SealedBuilderFails ==
    (lastCall.op # "none" /\ lastCall.sealed)
        => (lastCall.err = "JobSealed" /\ ~lastCall.changed)

\* C10: a builder call reusing a step name returns DuplicateStep and leaves
\* the definition unchanged.
C10_DuplicateStepFails ==
    (lastCall.op # "none" /\ lastCall.duplicate)
        => (lastCall.err = "DuplicateStep" /\ ~lastCall.changed)

\* C11: a builder call with a predecessor (data parent or ExecuteAfter step)
\* that is not a step of this job definition, even one carrying the name of a
\* step of this job, returns StepNotFound and adds no step and no edge. The
\* call is one on an unsealed definition with a step name not yet used.
C11_StepNotFound ==
    (lastCall.op # "none" /\ lastCall.notFound
        /\ ~lastCall.sealed /\ ~lastCall.duplicate)
        => (lastCall.err = "StepNotFound" /\ ~lastCall.changed)

\* C12: two job instances of one definition are independent. When in both of
\* them, neither canceled, the user function of a step failed at every attempt
\* until the step ended Failed, the step was invoked as often and reports as
\* many retries in the one as in the other.
C12_InstancesIndependent ==
    \A i \in Started : \A k \in Started : \A n \in Steps(i) \cap Steps(k) :
        (/\ ~ji[i].canceled /\ ~ji[k].canceled
         /\ ji[i].steps[n].err.Code = "StepFailed"
         /\ ji[k].steps[n].err.Code = "StepFailed")
            => /\ ji[i].steps[n].calls = ji[k].steps[n].calls
               /\ ji[i].steps[n].Retried = ji[k].steps[n].Retried

\* C13: once the context of a job instance is canceled, no user function that
\* had not been invoked is invoked any more, and every step task that
\* terminates from then on ends with JobCanceled or with a precedent failure.
C13_CancelStopsSteps ==
    [][\A i \in Started : ji[i].canceled =>
          \A n \in Steps(i) :
              /\ ~Invoked(i, n)
                    => /\ ji'[i].steps[n].calls = 0
                       /\ ji'[i].steps[n].pc \notin {"call", "sleep"}
              /\ (ji[i].steps[n].task = "Running" /\ ji'[i].steps[n].task # "Running")
                    => ji'[i].steps[n].err.Code \in {"JobCanceled", "PrecedentStepFailure"}]_vars

\* C14: Wait is idempotent: a Wait on a terminated job instance changes no
\* step instance, and a repeated Wait returns what the Wait before it returned.
C14_WaitIdempotent ==
    [][\A i \in JobIds :
          ji'[i].waits > ji[i].waits
              => /\ ji'[i].steps = ji[i].steps
                 /\ ji[i].waited => ji'[i].waitErr = ji[i].waitErr]_vars

\* Wait has been called a second time on a job instance with a failed step
C14_Witness ==
    \E i \in Started : ji[i].waits = MaxWaits /\ ji[i].waitErr.Code = "StepFailed"

\* C15: once every step task of a job instance has terminated, the state of
\* every step instance is Completed or Failed, also that of a step whose user
\* function was skipped for a failed predecessor (no user function panicked).
C15_TerminalStates ==
    \A i \in Started : (Done(i) /\ Panicked(i) = {}) =>
        \A n \in Steps(i) : ji[i].steps[n].state \in {"Completed", "Failed"}

\* the place of a step in the order of registration
Position(n) == CHOOSE k \in 1..Len(jd.order) : jd.order[k] = n

\* C16: after any sequence of builder calls the definition graph is acyclic
\* and has no self-loop: every edge goes from a step registered earlier to a
\* step registered later.
C16_Acyclic ==
    \A e \in Edges(jd.stepsDag) :
        /\ e[1] \in DOMAIN jd.steps /\ e[2] \in DOMAIN jd.steps
        /\ Position(e[1]) < Position(e[2])

\* a builder call reused the name of a step together with a dependency on
\* that name, on a graph that has an edge between two steps
C16_Witness ==
    /\ lastCall.op # "none" /\ lastCall.duplicate /\ lastCall.selfDep
    /\ ~lastCall.sealed
    /\ \E e \in Edges(jd.stepsDag) : e[1] # Root

\* C17: two renderings of an unchanged graph are the same, nodes and edges in
\* the same order, and every rendered edge is an edge of the graph in its
\* from -> to direction.
C17_VisualizeDeterministic ==
    \A a, b \in 1..Len(lastCall.dot) :
        /\ lastCall.dot[a] = lastCall.dot[b]
        /\ \A e \in 1..Len(lastCall.dot[a].Edges) :
              <<lastCall.dot[a].Edges[e].FromNodeID, lastCall.dot[a].Edges[e].ToNodeID>>
                  \in Edges(jd.stepsDag)

\* C18: starting and running a job instance on a sealed definition leaves
\* the definition unchanged: its step definitions with their dependency
\* lists, and the nodes and edges of its graph.
C18_DefinitionUnchanged ==
    [][Sealed(jd) => /\ jd'.steps = jd.steps
                     /\ jd'.order = jd.order
                     /\ jd'.stepsDag = jd.stepsDag]_vars

\* a second job instance, started on the definition the first Start sealed,
\* has run to its end
C18_Witness ==
    /\ Sealed(jd) /\ Done(1) /\ Done(2)
    /\ \A i \in JobIds : Steps(i) = DOMAIN jd.steps

\* the steps of the definition that carry a retry policy
WithPolicy == {n \in DOMAIN jd.steps : jd.steps[n].RetryPolicy # NoPolicy}

C20_RootGatesEveryStep ==
    \A n \in DOMAIN jd.steps \ {Root} :
        /\ Preds(n) # {}
        /\ Preds(n) = SeqToSet(jd.steps[n].DependOn)
        /\ Root \in Ancestors(n)

\* a step added by AddStep without ExecuteAfter is registered beside a step
\* that depends on another step
C20_Witness ==
    \E n, m \in DOMAIN jd.steps \ {Root} :
        /\ jd.steps[n].builder = "AddStep" /\ jd.steps[n].DependOn = <<Root>>
        /\ Root \notin Preds(m)

\* C21: while Start is still creating step instances and adding them to the
\* job instance, no instrumented body has gone past its wait for the
\* preceding tasks and no user function has been invoked.
C21_MapPopulatedBeforeBodies ==
    \A i \in Started : ji[i].phase = "starting" =>
        \A n \in Steps(i) \ {Root} :
            /\ ji[i].steps[n].pc \in {"parents", "waitAll"}
            /\ ~ji[i].steps[n].StartTime
            /\ ji[i].steps[n].calls = 0

\* C22: whenever the instance creator of a step runs, the step instance of
\* every step of its dependency list is in the job instance: the lookup of
\* the preceding instances never fails, and every step is started with the
\* tasks of all its predecessors to wait for, at least one.
C22_PredecessorsMaterialized ==
    \A i \in Started :
        /\ ji[i].phase # "panicked"
        /\ ji[i].phase = "starting" =>
              SeqToSet(jd.steps[jd.order[ji[i].cursor]].DependOn) \subseteq Steps(i)
        /\ \A n \in Steps(i) \ {Root} :
              /\ ji[i].steps[n].precedingTasks = jd.steps[n].DependOn
              /\ ji[i].steps[n].precedingTasks # <<>>

\* every step instance of a job has been created, one of them for a step
\* that takes the result of another step and waits for no other task
C22_Witness ==
    \E i \in Started : \E n \in Steps(i) \ {Root} :
        /\ ji[i].phase = "started"
        /\ jd.steps[n].parents # <<>>
        /\ Root \notin SeqToSet(ji[i].steps[n].precedingTasks)

\* C23: AddNode with an ID already present returns the duplicate-node error,
\* Connect with a missing from or to node returns the missing-endpoint error,
\* both leaving nodes and edges unchanged; every stored edge connects two
\* nodes of the graph.
C23_GraphErrors ==
    /\ (lastCall.op = "AddNode" /\ lastCall.duplicate)
          => (lastCall.err = "ErrDuplicateNode" /\ ~lastCall.changed)
    /\ (lastCall.op = "Connect" /\ lastCall.notFound)
          => (lastCall.err = "ErrConnectNotExistingNode" /\ ~lastCall.changed)
    /\ \A e \in Edges(jd.stepsDag) :
          e[1] \in DOMAIN jd.stepsDag.nodes /\ e[2] \in DOMAIN jd.stepsDag.nodes

\* a Connect naming a node that is missing was refused on a graph that holds
\* edges, among them a self-loop
C23_Witness ==
    /\ lastCall.op = "Connect" /\ lastCall.notFound
    /\ lastCall.err = "ErrConnectNotExistingNode"
    /\ EdgeCount(jd.stepsDag) >= 2
    /\ \E n \in NodeIds : <<n, n>> \in Edges(jd.stepsDag)

\* C24: the start time of a step instance is set if and only if its user
\* function has been invoked, or is being invoked: a step skipped for a failed
\* predecessor or a canceled context has none, and a user function runs only
\* with the start time recorded and, until it has returned, the state Running.
C24_StartTimeIffInvoked ==
    \A i \in Started : \A n \in Steps(i) :
        /\ ji[i].steps[n].StartTime <=> Invoked(i, n)
        /\ ji[i].steps[n].pc \in {"call", "sleep"} => ji[i].steps[n].state = "Running"
        /\ (ji[i].steps[n].pc = "done" /\ ji[i].steps[n].calls = 0 /\ n # Root)
              => /\ ~ji[i].steps[n].StartTime
                 /\ ji[i].steps[n].err.Code = "PrecedentStepFailure"

\* all tasks have terminated: one step ran and failed, one was skipped by
\* the wait for its preceding tasks, the context not being canceled
C24_Witness ==
    \E i \in Started : \E n, m \in Steps(i) \ {Root} :
        /\ Done(i) /\ ~ji[i].canceled
        /\ ji[i].steps[n].StartTime /\ ji[i].steps[n].state = "Failed"
        /\ ~ji[i].steps[m].StartTime
        /\ ji[i].steps[m].err = newJobError("PrecedentStepFailure")

====
